---- MODULE Spec2Model ----
(***************************************************************************)
(* The <lido-standalone> component (lido-standalone.tsx): script           *)
(* resolution (injectLidoScripts / doesFileExistSync / fallbackNpmImport)  *)
(* and content resolution (fetchXmlData), driven by componentWillLoad,     *)
(* the two @Watch callbacks and the settling of the fallback import.       *)
(*                                                                         *)
(* Strings are sequences of tokens: "" is << >>, "a/" is <<"a", "/">>.     *)
(* An optional string (string | undefined) is a record [def, val].         *)
(***************************************************************************)
EXTENDS Integers, Sequences, FiniteSets, TLC

VARIABLES
    baseUrl,          \* @Prop baseUrl: string
    xmlPath,          \* @Prop xmlPath?: string
    xmlData,          \* @Prop xmlData?: string
    scriptsInjected,  \* @State scriptsInjected: boolean
    localXmlData,     \* @State localXmlData?: string
    xmlBaseUrl,       \* @State xmlBaseUrl?: string
    head,             \* the <script> elements this instance appended to document.head
    pending,          \* import('lido-player/loader') promises not yet settled
    registrations,    \* defineCustomElements(window) calls that returned
    loaded,           \* componentWillLoad has run
    run               \* what the last callback did: requests sent, elements appended, logs

vars == <<baseUrl, xmlPath, xmlData, scriptsInjected, localXmlData, xmlBaseUrl,
          head, pending, registrations, loaded, run>>

----------------------------------------------------------------------------
(* Bounds of the model. *)

\* fallback loads (in flight or registered) the model lets one instance accumulate
MaxLoads == 2

\* responses the model draws for the GETs of one callback
MaxGets == 2

----------------------------------------------------------------------------
(* Values. *)

Undefined == [def |-> FALSE, val |-> << >>]

Some(s) == [def |-> TRUE, val |-> s]

\* JavaScript truthiness of a string | undefined: undefined and "" are falsy
Truthy(o) == o.def /\ o.val # << >>

\* values the embedding page gives the base-url attribute: "", "a", "b/"
BaseUrls == { << >>, <<"a">>, <<"b", "/">> }

\* values the embedding page gives the xml-path attribute
XmlPaths == { Undefined, Some(<< >>), Some(<<"p.xml">>) }

\* values the embedding page gives the xml-data attribute
XmlDatas == { Undefined, Some(<< >>), Some(<<"<inline/>">>) }

\* the response body (responseText) that comes with each status
BodyOf(st) ==
    IF st = 200 THEN <<"<xml/>">>
    ELSE IF st = 299 THEN <<"<other/>">>
    ELSE <<"<error/>">>

\* HTTP statuses around the edges of the 2xx range
Statuses == { 199, 200, 299, 300 }

\* xhr.send() threw (network failure, malformed URL)
Threw == [threw |-> TRUE, status |-> 0, body |-> << >>]

\* what a synchronous GET can end with
Responses ==
    { Threw } \cup { [threw |-> FALSE, status |-> st, body |-> BodyOf(st)] : st \in Statuses }

\* what a synchronous HEAD can end with (no body)
HeadResponses == { Threw } \cup
                 { [threw |-> FALSE, status |-> st, body |-> << >>] : st \in Statuses }

\* the responses to draw for a callback that sends n GETs
ResponsesFor(n) ==
    { [k \in 1..MaxGets |-> IF k <= n THEN r[k] ELSE Threw] : r \in [1..n -> Responses] }

NoResponses == [k \in 1..MaxGets |-> Threw]

\* the response to draw for a callback that sends n HEADs (0 or 1)
HeadResponsesFor(n) == IF n = 0 THEN { Threw } ELSE HeadResponses

\* how an import('lido-player/loader') settles
Outcomes == { "ok", "importRejects", "defineThrows" }

CodeEsm == <<"/code/lido-player.esm.js">>

CodeLegacy == <<"/code/lido-player.js">>

IndexXml == <<"/index.xml">>

\* the record of a callback that has done nothing yet: cfg is the configuration
\* it starts with, rejected is a rejection travelling down the promise chain
NoRun(op, cfg) ==
    [op |-> op, cfg |-> cfg, probes |-> << >>, gets |-> << >>, appended |-> << >>,
     fallbacks |-> 0, warns |-> 0, errors |-> 0, outcome |-> "", rejected |-> FALSE]

----------------------------------------------------------------------------
(* Script resolution. *)

RECURSIVE stripTrailingSlashes(_)
\* baseUrl.replace(/\/+$/, '')
stripTrailingSlashes(s) ==
    IF s # << >> /\ s[Len(s)] = "/"
    THEN stripTrailingSlashes(SubSeq(s, 1, Len(s) - 1))
    ELSE s

\* console.warn in the running callback
warn(t) == [t EXCEPT !.run.warns = @ + 1]

\* doesFileExistSync with the lower edge of the range off by one
doesFileExistSync_Above200(resp) ==
    IF resp.threw THEN FALSE
    ELSE resp.status > 200 /\ resp.status < 300

\* doesFileExistSync with the upper edge of the range off by one
doesFileExistSync_UpTo300(resp) ==
    IF resp.threw THEN FALSE
    ELSE resp.status >= 200 /\ resp.status <= 300

\* the value doesFileExistSync returns for a HEAD that ended with resp
doesFileExistSync(resp) ==
    IF resp.threw THEN FALSE
    ELSE resp.status >= 200 /\ resp.status < 300

\* the synchronous HEAD inside doesFileExistSync: the request, and the warning of its catch
headRequest(t, url, resp) ==
    LET t1 == [t EXCEPT !.run.probes = Append(@, [url |-> url, resp |-> resp])]
    IN  IF resp.threw THEN warn(t1) ELSE t1

\* fallbackNpmImport that drops the loads still in flight when it starts a new one
fallbackNpmImport_Supersedes(t) ==
    [t EXCEPT !.pending = 1, !.run.fallbacks = @ + 1]

\* starts import('lido-player/loader'); the promise settles in a later task
fallbackNpmImport(t) ==
    [t EXCEPT !.pending = @ + 1, !.run.fallbacks = @ + 1]

scriptEsm(src) == [type |-> "module", nomodule |-> FALSE, src |-> src]

scriptNoModule(src) == [type |-> "", nomodule |-> TRUE, src |-> src]

\* injectLidoScripts with the already-injected guard placed first
injectLidoScripts_GuardFirst(t, resp) ==
    IF t.scriptsInjected
    THEN t
    ELSE IF t.baseUrl = << >>
    THEN fallbackNpmImport(warn(t))
    ELSE LET cleanBase == stripTrailingSlashes(t.baseUrl)
             scriptCheckUrl == cleanBase \o CodeEsm
             t1 == headRequest(t, scriptCheckUrl, resp)
             els == << scriptEsm(scriptCheckUrl), scriptNoModule(cleanBase \o CodeLegacy) >>
         IN  IF doesFileExistSync(resp)
             THEN [t1 EXCEPT !.head = @ \o els,
                             !.run.appended = @ \o els,
                             !.scriptsInjected = TRUE]
             ELSE fallbackNpmImport(warn(t1))

\* injectLidoScripts that builds its URLs from baseUrl as given, slashes kept
injectLidoScripts_RawBase(t, resp) ==
    IF t.baseUrl = << >>
    THEN fallbackNpmImport(warn(t))
    ELSE IF t.scriptsInjected
    THEN t
    ELSE LET scriptCheckUrl == t.baseUrl \o CodeEsm
             t1 == headRequest(t, scriptCheckUrl, resp)
             els == << scriptEsm(scriptCheckUrl), scriptNoModule(t.baseUrl \o CodeLegacy) >>
         IN  IF doesFileExistSync(resp)
             THEN [t1 EXCEPT !.head = @ \o els,
                             !.run.appended = @ \o els,
                             !.scriptsInjected = TRUE]
             ELSE fallbackNpmImport(warn(t1))

\* injectLidoScripts that probes before it looks at scriptsInjected
injectLidoScripts_ProbeFirst(t, resp) ==
    IF t.baseUrl = << >>
    THEN fallbackNpmImport(warn(t))
    ELSE LET cleanBase == stripTrailingSlashes(t.baseUrl)
             scriptCheckUrl == cleanBase \o CodeEsm
             t1 == headRequest(t, scriptCheckUrl, resp)
             els == << scriptEsm(scriptCheckUrl), scriptNoModule(cleanBase \o CodeLegacy) >>
         IN  IF t.scriptsInjected
             THEN t1
             ELSE IF doesFileExistSync(resp)
             THEN [t1 EXCEPT !.head = @ \o els,
                             !.run.appended = @ \o els,
                             !.scriptsInjected = TRUE]
             ELSE fallbackNpmImport(warn(t1))

\* injectLidoScripts without the already-injected guard
injectLidoScripts_NoGuard(t, resp) ==
    IF t.baseUrl = << >>
    THEN fallbackNpmImport(warn(t))
    ELSE LET cleanBase == stripTrailingSlashes(t.baseUrl)
             scriptCheckUrl == cleanBase \o CodeEsm
             t1 == headRequest(t, scriptCheckUrl, resp)
             els == << scriptEsm(scriptCheckUrl), scriptNoModule(cleanBase \o CodeLegacy) >>
         IN  IF doesFileExistSync(resp)
             THEN [t1 EXCEPT !.head = @ \o els,
                             !.run.appended = @ \o els,
                             !.scriptsInjected = TRUE]
             ELSE fallbackNpmImport(warn(t1))

\* injectLidoScripts that also records the base it injected from as the resolved base
injectLidoScripts_SetsXmlBase(t, resp) ==
    IF t.baseUrl = << >>
    THEN fallbackNpmImport(warn(t))
    ELSE IF t.scriptsInjected
    THEN t
    ELSE LET cleanBase == stripTrailingSlashes(t.baseUrl)
             scriptCheckUrl == cleanBase \o CodeEsm
             t1 == headRequest(t, scriptCheckUrl, resp)
             els == << scriptEsm(scriptCheckUrl), scriptNoModule(cleanBase \o CodeLegacy) >>
         IN  IF doesFileExistSync(resp)
             THEN [t1 EXCEPT !.head = @ \o els,
                             !.run.appended = @ \o els,
                             !.scriptsInjected = TRUE,
                             !.xmlBaseUrl = Some(cleanBase)]
             ELSE fallbackNpmImport(warn(t1))

injectLidoScripts(t, resp) ==
    IF t.baseUrl = << >>
    THEN fallbackNpmImport(warn(t))
    ELSE IF t.scriptsInjected
    THEN t
    ELSE LET cleanBase == stripTrailingSlashes(t.baseUrl)
             scriptCheckUrl == cleanBase \o CodeEsm
             t1 == headRequest(t, scriptCheckUrl, resp)
             els == << scriptEsm(scriptCheckUrl), scriptNoModule(cleanBase \o CodeLegacy) >>
         IN  IF doesFileExistSync(resp)
             THEN [t1 EXCEPT !.head = @ \o els,
                             !.run.appended = @ \o els,
                             !.scriptsInjected = TRUE]
             ELSE fallbackNpmImport(warn(t1))

\* importCatch that also marks the scripts as not injected
importCatch_Resets(t) ==
    [t EXCEPT !.run.errors = @ + 1, !.run.rejected = FALSE, !.scriptsInjected = FALSE]

\* importCatch that marks the scripts as injected all the same
importCatch_MarksReady(t) ==
    [t EXCEPT !.run.errors = @ + 1, !.run.rejected = FALSE, !.scriptsInjected = TRUE]

\* the .catch callback of the import promise: console.error, rejection handled
importCatch(t) == [t EXCEPT !.run.errors = @ + 1, !.run.rejected = FALSE]

\* importThen in which the completion that finds no other load in flight decides
importThen_LastWins(t, outcome) ==
    IF outcome = "defineThrows"
    THEN [t EXCEPT !.run.rejected = TRUE]
    ELSE [t EXCEPT !.registrations = @ + 1, !.scriptsInjected = (t.pending = 0)]

\* importThen that assigns scriptsInjected before it calls defineCustomElements
importThen_FlagFirst(t, outcome) ==
    IF outcome = "defineThrows"
    THEN [t EXCEPT !.scriptsInjected = TRUE, !.run.rejected = TRUE]
    ELSE [t EXCEPT !.registrations = @ + 1, !.scriptsInjected = TRUE]

\* the .then callback of the import promise: a throw of defineCustomElements
\* rejects the chained promise before scriptsInjected is assigned
importThen(t, outcome) ==
    IF outcome = "defineThrows"
    THEN [t EXCEPT !.run.rejected = TRUE]
    ELSE [t EXCEPT !.registrations = @ + 1, !.scriptsInjected = TRUE]

\* the import promise settles: .then(...) is skipped when the import rejected, and
\* .catch(...) takes a rejection of the import or of the .then callback
importSettled(t, outcome) ==
    LET t1 == [t EXCEPT !.pending = @ - 1]
        t2 == IF outcome = "importRejects"
              THEN [t1 EXCEPT !.run.rejected = TRUE]
              ELSE importThen(t1, outcome)
    IN  IF t2.run.rejected THEN importCatch(t2) ELSE t2

----------------------------------------------------------------------------
(* Content resolution. *)

\* the synchronous GET of fetchXmlData with its try/catch: the k-th GET of a
\* callback ends with resps[k]
xhrGet(t, resps) ==
    LET resp == resps[Len(t.run.gets) + 1]
        t1 == [t EXCEPT !.run.gets = Append(@, [url |-> t.xmlPath.val, resp |-> resp])]
    IN  IF resp.threw THEN warn(t1)
        ELSE IF resp.status >= 200 /\ resp.status < 300
        THEN [t1 EXCEPT !.localXmlData = Some(resp.body)]
        ELSE warn(t1)

\* defaultXmlPath built from the base with its trailing slashes stripped
defaultXmlPath_Clean(t) == Some(stripTrailingSlashes(t.baseUrl) \o IndexXml)

\* the default location: `${this.baseUrl}/index.xml`
defaultXmlPath(t) == Some(t.baseUrl \o IndexXml)

RECURSIVE fetchXmlData_NoReturn(_, _, _)
\* fetchXmlData without the return after storing the inline data
fetchXmlData_NoReturn(t, resps, watchReady) ==
    LET t0 == IF Truthy(t.xmlData) THEN [t EXCEPT !.localXmlData = t.xmlData] ELSE t
    IN  IF ~Truthy(t0.xmlPath)
        THEN IF t0.baseUrl # << >>
             THEN LET t1 == [t0 EXCEPT !.xmlPath = defaultXmlPath(t0)]
                      t2 == IF watchReady THEN fetchXmlData_NoReturn(t1, resps, watchReady) ELSE t1
                      t3 == [t2 EXCEPT !.xmlBaseUrl = Some(t0.baseUrl)]
                  IN  xhrGet(t3, resps)
             ELSE t0
        ELSE xhrGet(t0, resps)

RECURSIVE fetchXmlData_Resets(_, _, _)
\* fetchXmlData that clears the resolved state when it finds no location
fetchXmlData_Resets(t, resps, watchReady) ==
    IF Truthy(t.xmlData)
    THEN [t EXCEPT !.localXmlData = t.xmlData]
    ELSE IF ~Truthy(t.xmlPath)
    THEN IF t.baseUrl # << >>
         THEN LET t1 == [t EXCEPT !.xmlPath = defaultXmlPath(t)]
                  t2 == IF watchReady THEN fetchXmlData_Resets(t1, resps, watchReady) ELSE t1
                  t3 == [t2 EXCEPT !.xmlBaseUrl = Some(t.baseUrl)]
              IN  xhrGet(t3, resps)
         ELSE [t EXCEPT !.localXmlData = Undefined, !.xmlBaseUrl = Undefined]
    ELSE xhrGet(t, resps)

RECURSIVE fetchXmlData(_, _, _)
\* watchReady: the runtime calls the @Watch('xmlPath') method when the component
\* itself assigns this.xmlPath. It does after the first load; during
\* componentWillLoad it depends on which of the two configured output targets
\* (dist, dist-custom-elements) the page uses, so Load draws it.
fetchXmlData(t, resps, watchReady) ==
    IF Truthy(t.xmlData)
    THEN [t EXCEPT !.localXmlData = t.xmlData]
    ELSE IF ~Truthy(t.xmlPath)
    THEN IF t.baseUrl # << >>
         THEN LET t1 == [t EXCEPT !.xmlPath = defaultXmlPath(t)]
                  \* onXmlPathChange() runs inside the assignment
                  t2 == IF watchReady THEN fetchXmlData(t1, resps, watchReady) ELSE t1
                  t3 == [t2 EXCEPT !.xmlBaseUrl = Some(t.baseUrl)]
              IN  xhrGet(t3, resps)
         ELSE t
    ELSE xhrGet(t, resps)

----------------------------------------------------------------------------
(* The callbacks. *)

onBaseUrlChange(t, resp) == injectLidoScripts(t, resp)

onXmlPathChange(t, resps) == fetchXmlData(t, resps, TRUE)

componentWillLoad(t, resp, resps, watchReady) ==
    fetchXmlData(injectLidoScripts(t, resp), resps, watchReady)

\* the configuration of the instance
Config(t) == [baseUrl |-> t.baseUrl, xmlPath |-> t.xmlPath, xmlData |-> t.xmlData]

\* a callback starts on the instance
Start(t, op) == [t EXCEPT !.run = NoRun(op, Config(t))]

\* the instance as one record, and its write-back
This == [baseUrl |-> baseUrl, xmlPath |-> xmlPath, xmlData |-> xmlData,
         scriptsInjected |-> scriptsInjected, localXmlData |-> localXmlData,
         xmlBaseUrl |-> xmlBaseUrl, head |-> head, pending |-> pending,
         registrations |-> registrations, run |-> run]

Becomes(t) ==
    /\ baseUrl' = t.baseUrl
    /\ xmlPath' = t.xmlPath
    /\ xmlData' = t.xmlData
    /\ scriptsInjected' = t.scriptsInjected
    /\ localXmlData' = t.localXmlData
    /\ xmlBaseUrl' = t.xmlBaseUrl
    /\ head' = t.head
    /\ pending' = t.pending
    /\ registrations' = t.registrations
    /\ run' = t.run

\* the model stops a trigger that would take the instance past MaxLoads loads
WithinBounds(t) == t.pending + t.registrations <= MaxLoads

Init ==
    /\ baseUrl \in BaseUrls
    /\ xmlPath \in XmlPaths
    /\ xmlData \in XmlDatas
    /\ scriptsInjected = FALSE
    /\ localXmlData = Undefined
    /\ xmlBaseUrl = Undefined
    /\ head = << >>
    /\ pending = 0
    /\ registrations = 0
    /\ loaded = FALSE
    /\ run = NoRun("none", [baseUrl |-> baseUrl, xmlPath |-> xmlPath, xmlData |-> xmlData])

\* the first load of the element
Load ==
    /\ ~loaded
    /\ \E watchReady \in BOOLEAN :
          LET t == Start(This, "load")
              d == componentWillLoad(t, Threw, NoResponses, watchReady).run
          IN  \E resp \in HeadResponsesFor(Len(d.probes)), resps \in ResponsesFor(Len(d.gets)) :
                 \E u \in { componentWillLoad(t, resp, resps, watchReady) } : Becomes(u)
    /\ loaded' = TRUE

\* the page changes base-url; the runtime calls the watcher when the value differs
BaseUrlChange ==
    /\ loaded
    /\ \E v \in BaseUrls \ {baseUrl} :
          LET t == Start([This EXCEPT !.baseUrl = v], "baseUrl")
              n == Len(onBaseUrlChange(t, Threw).run.probes)
          IN  \E resp \in HeadResponsesFor(n) :
                 \E u \in { onBaseUrlChange(t, resp) } : WithinBounds(u) /\ Becomes(u)
    /\ UNCHANGED loaded

\* the page changes xml-path
XmlPathChange ==
    /\ loaded
    /\ \E v \in XmlPaths \ {xmlPath} :
          LET t == Start([This EXCEPT !.xmlPath = v], "xmlPath")
              n == Len(onXmlPathChange(t, NoResponses).run.gets)
          IN  \E resps \in ResponsesFor(n) :
                 \E u \in { onXmlPathChange(t, resps) } : Becomes(u)
    /\ UNCHANGED loaded

\* the page changes xml-data; no watcher is declared for it
XmlDataChange ==
    /\ loaded
    /\ \E v \in XmlDatas \ {xmlData} :
          Becomes(Start([This EXCEPT !.xmlData = v], "xmlData"))
    /\ UNCHANGED loaded

\* one pending import('lido-player/loader') settles
FallbackSettles ==
    /\ pending > 0
    /\ \E outcome \in Outcomes :
          \E u \in { importSettled([Start(This, "fallback") EXCEPT !.run.outcome = outcome],
                                    outcome) } : Becomes(u)
    /\ UNCHANGED loaded

Next == Load \/ BaseUrlChange \/ XmlPathChange \/ XmlDataChange \/ FallbackSettles

Spec == Init /\ [][Next]_vars

\* the event loop runs the callbacks of every import promise: a pending import
\* does not stay unsettled forever
FairSpec == Spec /\ WF_vars(FallbackSettles)

----------------------------------------------------------------------------
(* Vocabulary of the properties. *)

\* a response in the 200..299 range
Ok2xx(resp) == ~resp.threw /\ resp.status \in 200..299

\* the last callback ran ScriptResolution / ContentResolution
RanScriptResolution == run.op \in {"load", "baseUrl"}

RanContentResolution == run.op \in {"load", "xmlPath"}

\* the same, for the callback of the step being taken
RunsScriptResolution == run'.op \in {"load", "baseUrl"}

RunsContentResolution == run'.op \in {"load", "xmlPath"}

\* remote injections so far: each appends two script elements
Injections == Len(head) \div 2

\* the probe of the last callback, when it sent one
Probed == run.probes # << >>

ProbeOf(r) == r.probes[1]

\* base-location with its trailing slashes dropped, written out for "a" and "b/"
CleanOf(b) == IF b = <<"b", "/">> THEN <<"b">> ELSE b

----------------------------------------------------------------------------
(* ScriptResolution. *)

\* C1: remote script injections plus successful fallback registrations never
\* exceed one for the instance.
C1_RegisteredAtMostOnce == Injections + registrations <= 1

\* C2: a ScriptResolution run with a non-empty base-location whose probe of
\* <base>/code/lido-player.esm.js answers 200..299 appends exactly two script
\* elements (module ESM, then nomodule legacy), sets scriptsInjected and starts
\* no fallback load.
C2_ProbeOkInjectsTwo ==
    (RanScriptResolution /\ baseUrl # << >> /\ Probed /\ Ok2xx(ProbeOf(run).resp)) =>
        /\ ProbeOf(run).url = CleanOf(baseUrl) \o <<"/code/lido-player.esm.js">>
        /\ Len(run.appended) = 2
        /\ run.appended[1] = [type |-> "module", nomodule |-> FALSE,
                              src |-> CleanOf(baseUrl) \o <<"/code/lido-player.esm.js">>]
        /\ run.appended[2] = [type |-> "", nomodule |-> TRUE,
                              src |-> CleanOf(baseUrl) \o <<"/code/lido-player.js">>]
        /\ scriptsInjected
        /\ run.fallbacks = 0

\* C2's case: base-url "b/" changed in, probe answered 299, both scripts appended
C2_Witness ==
    /\ run.op = "baseUrl" /\ baseUrl = <<"b", "/">>
    /\ Probed /\ ProbeOf(run).resp.status = 299
    /\ Len(run.appended) = 2 /\ head = run.appended /\ scriptsInjected

\* C3: a ScriptResolution run with a non-empty base-location whose probe answers
\* outside 200..299 or throws starts one fallback load, appends no script and
\* leaves scriptsInjected as it was; a fallback load that then succeeds sets
\* scriptsInjected by registering, without appending a script.
C3_ProbeFailFallsBack ==
    [][ /\ (RunsScriptResolution /\ baseUrl' # << >> /\ run'.probes # << >>
              /\ ~Ok2xx(ProbeOf(run').resp)) =>
              /\ run'.fallbacks = 1 /\ pending' = pending + 1
              /\ run'.appended = << >> /\ head' = head
              /\ scriptsInjected' = scriptsInjected /\ ~scriptsInjected'
        /\ (run'.op = "fallback" /\ run'.outcome = "ok") =>
              /\ scriptsInjected'
              /\ registrations' = registrations + 1
              /\ head' = head /\ run'.appended = << >>
      ]_vars

\* C3's case: the probe answered 300 and the run left one more load pending
C3_Witness ==
    /\ run.op = "baseUrl" /\ baseUrl # << >>
    /\ Probed /\ ProbeOf(run).resp.status = 300
    /\ run.fallbacks = 1 /\ pending >= 1 /\ ~scriptsInjected /\ head = << >>

\* C4: a ScriptResolution run with an empty base-location starts the fallback
\* load and sends no probe and appends no script, whatever scriptsInjected is.
C4_EmptyBaseFallsBack ==
    (RanScriptResolution /\ baseUrl = << >>) =>
        /\ run.fallbacks = 1
        /\ run.probes = << >>
        /\ run.appended = << >>

\* C4's case: base-url changed to "" while scriptsInjected was already true
C4_Witness ==
    /\ run.op = "baseUrl" /\ baseUrl = << >> /\ scriptsInjected
    /\ run.fallbacks = 1 /\ pending >= 1

\* C5: scriptsInjected never goes from true to false.
C5_ScriptsReadyMonotonic == [][scriptsInjected => scriptsInjected']_vars

\* C5's case: a fallback load failed after scriptsInjected had become true
C5_Witness ==
    /\ run.op = "fallback" /\ run.outcome # "ok" /\ scriptsInjected

----------------------------------------------------------------------------
(* ContentResolution. *)

\* the last GET of the last callback, when it sent one
Fetched == run.gets # << >>

LastGet(r) == r.gets[Len(r.gets)]

\* C6 as stated: whenever inline-xml-data is supplied, whatever its value, the
\* run issues no GET and the resolved payload equals the inline data.
C6_InlineSuppliedWins ==
    (RanContentResolution /\ run.cfg.xmlData.def) =>
        /\ run.gets = << >>
        /\ localXmlData = run.cfg.xmlData

\* C6 amended: whenever a non-empty inline-xml-data is supplied, whatever
\* xml-location and base-location are, the run issues no GET and the resolved
\* payload equals the inline data.
C6_NonEmptyInlineWins ==
    (RanContentResolution /\ run.cfg.xmlData.def /\ run.cfg.xmlData.val # << >>) =>
        /\ run.gets = << >>
        /\ localXmlData = run.cfg.xmlData

\* C6's case: inline data, an xml-path and a base-url all present at an xml-path change
C6_Witness ==
    /\ run.op = "xmlPath"
    /\ run.cfg.xmlData = [def |-> TRUE, val |-> <<"<inline/>">>]
    /\ run.cfg.xmlPath = [def |-> TRUE, val |-> <<"p.xml">>]
    /\ run.cfg.baseUrl # << >>
    /\ localXmlData = xmlData /\ run.gets = << >>

\* C7: a ContentResolution run with no inline data, no xml-location and a
\* non-empty base-location B sends its GET to B followed by "/index.xml" and
\* leaves the resolved base equal to B; when the GET answers 200..299 the
\* resolved payload is the response body.
C7_DefaultLocation ==
    (RanContentResolution /\ ~(run.cfg.xmlData.def /\ run.cfg.xmlData.val # << >>)
       /\ ~(run.cfg.xmlPath.def /\ run.cfg.xmlPath.val # << >>)
       /\ run.cfg.baseUrl # << >>) =>
        /\ Fetched
        /\ \A i \in 1..Len(run.gets) : run.gets[i].url = run.cfg.baseUrl \o <<"/index.xml">>
        /\ xmlBaseUrl = [def |-> TRUE, val |-> run.cfg.baseUrl]
        /\ Ok2xx(LastGet(run).resp) =>
              localXmlData = [def |-> TRUE, val |-> LastGet(run).resp.body]

\* C7's case: xml-path unset with base-url "b/", and the GET of b//index.xml answered 299
C7_Witness ==
    /\ run.op = "xmlPath" /\ ~run.cfg.xmlPath.def /\ ~run.cfg.xmlData.def
    /\ run.cfg.baseUrl = <<"b", "/">>
    /\ Fetched /\ LastGet(run).resp.status = 299
    /\ localXmlData.val = <<"<other/>">>
    /\ xmlBaseUrl.val = <<"b", "/">>

\* C8: a ContentResolution run with no inline data, no xml-location and an empty
\* base-location sends no GET and leaves the resolved payload and the resolved
\* base as they were.
C8_NoLocationNoOp ==
    [][ (RunsContentResolution /\ ~(run'.cfg.xmlData.def /\ run'.cfg.xmlData.val # << >>)
           /\ ~(run'.cfg.xmlPath.def /\ run'.cfg.xmlPath.val # << >>)
           /\ run'.cfg.baseUrl = << >>) =>
           /\ run'.gets = << >>
           /\ localXmlData' = localXmlData
           /\ xmlBaseUrl' = xmlBaseUrl
      ]_vars

\* C8's case: xml-path was cleared with nothing else configured, after an
\* earlier run had resolved a payload and a base
C8_Witness ==
    /\ run.op = "xmlPath" /\ ~run.cfg.xmlPath.def /\ ~run.cfg.xmlData.def
    /\ run.cfg.baseUrl = << >>
    /\ run.gets = << >>
    /\ localXmlData.def /\ xmlBaseUrl.def

\* C9: after a ContentResolution run whose GET ends with a status outside
\* 200..299 or throws, the resolved payload is undefined, whatever it was
\* before, and a warning has been logged.
C9_FailedFetchUnsets ==
    (RanContentResolution /\ Fetched
       /\ \A i \in 1..Len(run.gets) : ~Ok2xx(run.gets[i].resp)) =>
        /\ localXmlData = [def |-> FALSE, val |-> << >>]
        /\ run.warns >= 1

\* C10: a fallback load that fails (the import rejects or defineCustomElements
\* throws) leaves scriptsInjected as it was, registers nothing, logs one error
\* and leaves no rejection unhandled.
C10_FallbackFailureContained ==
    [][ (run'.op = "fallback" /\ run'.outcome \in {"importRejects", "defineThrows"}) =>
           /\ scriptsInjected' = scriptsInjected
           /\ registrations' = registrations
           /\ run'.errors = 1
           /\ ~run'.rejected
      ]_vars

\* C10's case: defineCustomElements threw while scriptsInjected was false
C10_Witness ==
    /\ run.op = "fallback" /\ run.outcome = "defineThrows"
    /\ ~scriptsInjected /\ run.errors = 1 /\ registrations = 0

----------------------------------------------------------------------------
(* Re-runs and triggers. *)

\* the two script elements of base b
ScriptsOf(b) ==
    << [type |-> "module", nomodule |-> FALSE,
        src |-> CleanOf(b) \o <<"/code/lido-player.esm.js">>],
       [type |-> "", nomodule |-> TRUE,
        src |-> CleanOf(b) \o <<"/code/lido-player.js">>] >>

FromUnset ==
    LET unset == [This EXCEPT !.baseUrl = run.cfg.baseUrl, !.xmlPath = run.cfg.xmlPath,
                              !.xmlData = run.cfg.xmlData,
                              !.localXmlData = [def |-> FALSE, val |-> << >>],
                              !.xmlBaseUrl = [def |-> FALSE, val |-> << >>],
                              !.run = NoRun(run.op, run.cfg)]
        resps == [k \in 1..MaxGets |->
                     IF k <= Len(run.gets) THEN run.gets[k].resp ELSE Threw]
        u == fetchXmlData(unset, resps, Len(run.gets) > 1)
    IN  << u.localXmlData, u.xmlBaseUrl >>

\* C12: after any ContentResolution run the resolved payload and base depend only
\* on the configuration at the run and on the run's fetch outcome: they are the
\* pair the same run leaves from an unset ResolutionState, whatever earlier runs
\* produced.
C12_RecomputedNotMerged ==
    RanContentResolution => << localXmlData, xmlBaseUrl >> = FromUnset

\* C13: each ContentResolution trigger (the first load, or one change of
\* xml-location made by the page) issues at most one GET, the component's own
\* write of the default location included, and no other callback issues a GET.
C13_SingleAttemptPerTrigger ==
    /\ RanContentResolution => Len(run.gets) <= 1
    /\ ~RanContentResolution => run.gets = << >>

C15_ReadyOnlyOnSuccess ==
    /\ scriptsInjected => (Injections >= 1 \/ registrations >= 1)
    /\ run.appended # << >> => (Probed /\ Ok2xx(ProbeOf(run).resp))

\* C15's case: one load failed, another is still pending, nothing was injected,
\* and scriptsInjected is false
C15_Witness ==
    /\ run.op = "fallback" /\ run.outcome = "importRejects"
    /\ pending >= 1 /\ registrations = 0 /\ head = << >>
    /\ ~scriptsInjected

----------------------------------------------------------------------------
(* Completion of the fallback loads. *)

\* C16: under fairness of fallback completion every started load completes: a
\* trigger only adds to the loads in flight and never removes one, each
\* settlement ends with scriptsInjected true or an error logged, a load that
\* succeeds leaves scriptsInjected true, and a behaviour never stays with loads
\* in flight without another settlement (again and again nothing is in
\* flight, or again and again a load settles).
C16_StartedLoadsComplete ==
    /\ [][ /\ run'.op # "fallback" => pending' = pending + run'.fallbacks
           /\ run'.op = "fallback" =>
                 /\ pending' = pending - 1
                 /\ scriptsInjected' \/ run'.errors = 1
                 /\ run'.outcome = "ok" => scriptsInjected'
         ]_vars
    /\ \/ []<>(pending = 0)
       \/ []<><<pending' < pending>>_vars

\* C16's case: a load succeeded while a load started by a later trigger is still
\* in flight
C16_Witness ==
    /\ run.op = "fallback" /\ run.outcome = "ok"
    /\ pending = 1 /\ registrations = 1 /\ scriptsInjected

----------------------------------------------------------------------------
(* Independence of the two resolutions. *)

\* what content resolution owns, and what script resolution owns
ContentPart(t) == << t.localXmlData, t.xmlBaseUrl, t.xmlPath >>

ScriptPart(t) == << t.scriptsInjected, t.head, t.pending, t.registrations >>

\* from the current state, with one outcome for the probe and one per GET:
\* script resolution leaves the content part alone, content resolution leaves
\* the script part alone, and the two orders end in the same instance
IndependentFrom(t) ==
    \A watchReady \in BOOLEAN :
       LET n == Len(fetchXmlData(t, NoResponses, watchReady).run.gets)
           m == Len(injectLidoScripts(t, Threw).run.probes)
       IN  \A resp \in HeadResponsesFor(m), resps \in ResponsesFor(n) :
              LET s == injectLidoScripts(t, resp)
                  c == fetchXmlData(t, resps, watchReady)
              IN  /\ ContentPart(s) = ContentPart(t)
                  /\ ScriptPart(c) = ScriptPart(t)
                  /\ fetchXmlData(s, resps, watchReady) = injectLidoScripts(c, resp)

\* C17: script resolution and content resolution are independent: in every
\* reachable state each leaves the other's part of the instance alone and the
\* two orders give the same result for the same network outcomes; a base-url
\* change and a fallback completion change nothing of the content part, and an
\* xml-path change changes nothing of the script part.
C17_ResolutionsIndependent ==
    /\ [] IndependentFrom(Start(This, "load"))
    /\ [][ /\ run'.op \in { "baseUrl", "fallback" } =>
                 UNCHANGED << localXmlData, xmlBaseUrl, xmlPath >>
           /\ run'.op = "xmlPath" =>
                 UNCHANGED << scriptsInjected, head, pending, registrations >>
         ]_vars

\* C17's case: one callback ran both: it injected the scripts from the base and
\* fetched the payload from the default location
C17_Witness ==
    /\ run.op = "load"
    /\ Len(run.appended) = 2 /\ Len(run.gets) = 1
    /\ scriptsInjected /\ localXmlData.def /\ xmlBaseUrl.def

----------------------------------------------------------------------------
(* Remote injection happens once. *)

----------------------------------------------------------------------------
(* Fallback loads in flight at once. *)

RECURSIVE SettledInOrder(_, _)
\* the instance after the loads in flight settle one after another with the
\* outcomes os, in that order
SettledInOrder(t, os) ==
    IF os = << >> THEN t
    ELSE LET o == Head(os)
         IN  SettledInOrder(importSettled([Start(t, "fallback") EXCEPT !.run.outcome = o], o),
                            Tail(os))

\* C19: whenever loads are in flight, for every assignment of outcomes to them
\* and whichever order they complete in, once all have completed
\* scriptsInjected is true exactly if it was true before or one of them
\* succeeded; and a completion never turns scriptsInjected from true to false.
C19_CompletionOrderIrrelevant ==
    /\ [] \A os \in [1..pending -> Outcomes] :
             LET end == SettledInOrder(This, os)
             IN  /\ end.pending = 0
                 /\ end.scriptsInjected <=>
                       (scriptsInjected \/ \E i \in 1..pending : os[i] = "ok")
    /\ [][ run'.op = "fallback" /\ scriptsInjected => scriptsInjected' ]_vars

\* C19's case: two loads are in flight at once, the second started by a base-url
\* change before the first completed, with nothing injected and scriptsInjected
\* false, so that their outcomes alone decide scriptsInjected
C19_Witness ==
    /\ run.op = "baseUrl" /\ run.fallbacks = 1
    /\ pending = 2 /\ registrations = 0 /\ head = << >>
    /\ ~scriptsInjected

====
